---- MODULE Spec2Model ----
(***************************************************************************)
(* Conversation orchestration engine of the utility agent.                 *)
(*                                                                         *)
(*   app/agent/agent.py      UtilityAgent: the LangGraph state graph       *)
(*                           (chatbot / verify_customer / tools), the      *)
(*                           SqliteSaver checkpointer, the ttl table,      *)
(*                           clear_memory and clear_old_checkpoints        *)
(*   app/utilities/database.py   DatabaseManager: the phone_verifications  *)
(*                           table (the verification gate)                 *)
(*                                                                         *)
(*   app/agent/tools.py      the tools the model can call                  *)
(*                                                                         *)
(* The specifications:                                                     *)
(*   Spec       the orchestrator driven by one request at a time           *)
(*   SpecSweep  the same with the clock and the TTL sweep between requests *)
(*   SpecSweepFair  SpecSweep with a sweep that runs to its end            *)
(*   SpecConc   the orchestrator with overlapping requests and sweeps      *)
(*   SpecGate   the verification gate driven by a sequence of calls        *)
(*   SpecRace   overlapping verify_phone_number calls                      *)
(*   SpecTools  the tools applied to every input                           *)
(***************************************************************************)
EXTENDS Integers, Sequences, FiniteSets, TLC

VARIABLES
    checkpoints,    \* checkpoints table: thread_id -> <<>> or <<latest state>>
    ttl,            \* ttl table: rows <<thread_id, last_message_time>>
    now,            \* datetime.utcnow() / CURRENT_TIMESTAMP, in minutes
    turns,          \* number of process_message calls made so far
    pc,             \* per caller: position inside process_message
    call,           \* per caller: the locals of its process_message call
    sweep,          \* the locals of clear_old_checkpoints
    clear,          \* the clear_memory call made through the API
    hist,           \* per thread: time of the last reply, cleared since
    table,          \* phone_verifications rows, committed
    gate,           \* the locals of the verification-gate call in flight
    verifier,       \* per caller: its overlapping verify_phone_number call
    writer,         \* SQLite's write lock on the table, and the last commit
    toolcall,       \* the last tool invocation: its inputs and its outcome
    request         \* the POST /chat request in flight

vars ==
    <<checkpoints, ttl, now, turns, pc, call, sweep, clear, hist, table, gate,
      verifier, writer, toolcall, request>>

orchVars == <<checkpoints, ttl, turns, pc, call, sweep, clear, hist>>
gateVars == <<table, gate, verifier, writer>>
raceVars == <<verifier, writer>>
toolVars == <<toolcall>>
apiVars == <<request>>

(***************************************************************************)
(* Bounds of the model.                                                    *)
(***************************************************************************)
MaxTurns == 2
MaxClock == 46
MaxToolCalls == 1

(***************************************************************************)
(* Values.                                                                 *)
(***************************************************************************)
None == "None"

Threads == {"t1", "t2"}
Callers == {"c1", "c2"}
\* requests that never overlap need one caller only
SeqCallers == {"c1"}

\* pL: known to the legacy service and to the local directory
\* pD: known to the local directory only
\* pU: known to neither
Phones == {"pL", "pD", "pU"}
LegacyPhones == {"pL"}
DirectoryPhones == {"pL", "pD"}
\* the phone numbers used where the clock and the sweep are explored
SweepPhones == {"pD", "pU"}
\* minutes by which the clock moves between observations
TickSteps == {15, 31}

\* timedelta(minutes=45)
StaleMinutes == 45

\* with overlapping requests the clock moves past the stale threshold at once
ConcTickSteps == {StaleMinutes + 1}

\* LangGraph's default recursion_limit: process_message passes none
RecursionLimit == 25

(***************************************************************************)
(* UtilityAgentState and messages.                                         *)
(***************************************************************************)
EmptyState ==
    [messages |-> <<>>, verified_customer |-> None, phone_number |-> None,
     local_data |-> None, account_id |-> None, registered_address |-> None,
     customer_name |-> None, balance |-> None, days_left |-> None,
     used |-> None, read_date |-> None, charge_amount |-> None]

HumanMessage(n) == [role |-> "human", turn |-> n, tool_calls |-> FALSE]
SystemMessage(n) == [role |-> "system", turn |-> n, tool_calls |-> FALSE]
AIMessage(n, calls) == [role |-> "ai", turn |-> n, tool_calls |-> calls]
ToolMessage(n) == [role |-> "tool", turn |-> n, tool_calls |-> FALSE]

\* a reducer that keeps the last write only, as a plain channel would
overwrite_messages(left, right) == right

\* the add_messages reducer: new messages carry fresh ids, so they are appended
add_messages(left, right) == left \o right

\* an update that replaces the state: what is not written is reset
ReplaceState(st, upd) ==
    [k \in DOMAIN st |-> IF k \in DOMAIN upd THEN upd[k] ELSE EmptyState[k]]

\* a LastValue channel keeps the value of the last write
Update(st, upd) ==
    [k \in DOMAIN st |->
        IF k = "messages"
        THEN IF "messages" \in DOMAIN upd
             THEN add_messages(st.messages, upd.messages) ELSE st.messages
        ELSE IF k \in DOMAIN upd THEN upd[k] ELSE st[k]]

\* langgraph.prebuilt.tools_condition on the state a node leaves behind
tools_condition(st) ==
    IF Len(st.messages) > 0
       /\ st.messages[Len(st.messages)].role = "ai"
       /\ st.messages[Len(st.messages)].tool_calls
    THEN "tools" ELSE "end"

(***************************************************************************)
(* The collaborators of verify_customer.                                   *)
(***************************************************************************)
\* soap_client.my_alerts: the account id, or None (unknown phone, HTTP or
\* XML failure)
my_alerts(p) == IF p \in LegacyPhones THEN {"acct_" \o p, None} ELSE {None}

\* soap_client.my_usage / _parse_usage_response: the snapshot, with or
\* without a Name element, or None (HTTP error, AccountGet or BillingInfo
\* missing)
my_usage(a) ==
    {[ok |-> TRUE, name |-> "name_" \o a], [ok |-> TRUE, name |-> None],
     [ok |-> FALSE, name |-> None]}

\* DatabaseManager.get_customer_by_phone: the Account row, or None
get_customer_by_phone(p) ==
    IF p \in DirectoryPhones
    THEN [found |-> TRUE, name |-> "name_" \o p, account_id |-> "acct_" \o p,
          address |-> "addr_" \o p]
    ELSE [found |-> FALSE, name |-> None, account_id |-> None, address |-> None]

(***************************************************************************)
(* Initial state.                                                          *)
(***************************************************************************)
IdleCall ==
    [thread |-> None, phone |-> None, turn |-> 0, st |-> EmptyState,
     pre |-> <<>>, node |-> "end", steps |-> 0, nverify |-> 0,
     ncalls |-> 0, budget |-> 0, cause |-> None, fresh |-> FALSE]

IdleSweep ==
    [pc |-> "idle", now |-> 0, cutoff |-> 0, rows |-> {}, todo |-> {},
     failed |-> {}, cleared |-> 0, result |-> <<>>]

IdleClear == [pc |-> "idle", thread |-> None]

NoCall == [op |-> None, phone |-> None, result |-> FALSE]

IdleGate ==
    [pc |-> "idle", op |-> None, phone |-> None, session |-> None,
     result |-> FALSE, tx |-> <<>>, pre |-> <<>>, repeat |-> FALSE,
     prev |-> NoCall]

NoHist == [at |-> <<>>, cleared |-> FALSE]

IdleVerifier ==
    [pc |-> "idle", phone |-> None, session |-> None, tx |-> <<>>,
     result |-> FALSE]

NoWriter == [holder |-> None, last |-> None]

NoToolCall == [tool |-> None, input |-> <<>>, outcome |-> None]

\* no exception is being handled
NoException == [type |-> None, status_code |-> 0]

NoRequest ==
    [pc |-> "idle", message |-> "", phone_number |-> "", session_id |-> None,
     use_tts |-> FALSE, cause |-> None, exc |-> NoException, status_code |-> 0]

Init ==
    /\ checkpoints = [t \in Threads |-> <<>>]
    /\ ttl = {}
    /\ now = 0
    /\ turns = 0
    /\ pc = [c \in Callers |-> "idle"]
    /\ call = [c \in Callers |-> IdleCall]
    /\ sweep = IdleSweep
    /\ clear = IdleClear
    /\ hist = [t \in Threads |-> NoHist]
    /\ table = <<>>
    /\ gate = IdleGate
    /\ verifier = [c \in Callers |-> IdleVerifier]
    /\ writer = NoWriter
    /\ toolcall = NoToolCall
    /\ request = NoRequest

\* nothing is in flight in the orchestrator
Quiet ==
    /\ \A c \in Callers : pc[c] = "idle"
    /\ sweep.pc = "idle"
    /\ clear.pc = "idle"

\* time passes
Tick(d) ==
    /\ now + d <= MaxClock
    /\ now' = now + d
    /\ UNCHANGED <<orchVars, gateVars, toolVars, apiVars>>

(***************************************************************************)
(* process_message.                                                        *)
(***************************************************************************)
\* a test that takes every value for falsy
NeverTruthy(v) == FALSE

\* Python truthiness of a state field
Truthy(v) == v \notin {None, "False", ""}

\* the turn raises: `except Exception: ... raise`
Raise(c, why) ==
    /\ pc' = [pc EXCEPT ![c] = "failed"]
    /\ call' = [call EXCEPT ![c].cause = why]

\* SqliteSaver.put of the state a superstep leaves behind
Put(cp, t, st) == [cp EXCEPT ![t] = <<st>>]

\* a validation that comes after the input has been saved
RejectAfterInput(c, t) ==
    /\ pc[c] = "idle"
    /\ pc' = [pc EXCEPT ![c] = "failed"]
    /\ call' = [call EXCEPT ![c] =
                  [IdleCall EXCEPT !.thread = t, !.phone = "",
                                   !.pre = checkpoints[t],
                                   !.cause = "ValueError"]]
    /\ checkpoints' = Put(checkpoints, t,
                          Update(EmptyState, [messages |-> <<HumanMessage(0)>>]))
    /\ UNCHANGED <<ttl, now, turns, sweep, clear, hist, gateVars, toolVars, apiVars>>

\* `if not phone_number: raise ValueError`
RejectTurn(c, t) ==
    /\ pc[c] = "idle"
    /\ pc' = [pc EXCEPT ![c] = "failed"]
    /\ call' = [call EXCEPT ![c] =
                  [IdleCall EXCEPT !.thread = t, !.phone = "",
                                   !.pre = checkpoints[t],
                                   !.cause = "ValueError"]]
    /\ UNCHANGED <<checkpoints, ttl, now, turns, sweep, clear, hist, gateVars, toolVars, apiVars>>

\* graph.stream(...) begins: the latest checkpoint of the thread is loaded;
\* budget is the number of tool requests of the model the turn explores
BeginTurn(c, t, p, budget) ==
    /\ pc[c] = "idle"
    /\ turns < MaxTurns
    /\ turns' = turns + 1
    /\ pc' = [pc EXCEPT ![c] = "loop"]
    /\ call' = [call EXCEPT ![c] =
                  [IdleCall EXCEPT
                     !.thread = t, !.phone = p, !.turn = turns + 1,
                     !.pre = checkpoints[t],
                     !.st = IF checkpoints[t] = <<>> THEN EmptyState
                            ELSE checkpoints[t][1],
                     !.node = "input",
                     !.budget = budget,
                     !.fresh = hist[t].cleared]]
    /\ hist' = [hist EXCEPT ![t].cleared = FALSE]
    /\ UNCHANGED <<checkpoints, ttl, now, sweep, clear, gateVars, toolVars, apiVars>>

\* a turn in which the model asks for at most MaxToolCalls tools
StartTurn(c, t, p) == BeginTurn(c, t, p, MaxToolCalls)

\* a turn in which the model may ask for a tool on every call
StartChainTurn(c, t, p) == BeginTurn(c, t, p, RecursionLimit)

\* a graph without a superstep limit
NoLimit(steps) == TRUE

\* a superstep may run while the recursion limit is not reached
WithinLimit(steps) == steps < RecursionLimit

\* the input is written to the channels and the input checkpoint is saved
PutInput(c) ==
    /\ pc[c] = "loop"
    /\ call[c].node = "input"
    /\ LET st == Update(call[c].st,
                        [messages |-> <<HumanMessage(call[c].turn)>>,
                         phone_number |-> call[c].phone])
       IN /\ call' = [call EXCEPT ![c].st = st, ![c].node = "chatbot"]
          /\ checkpoints' = Put(checkpoints, call[c].thread, st)
    /\ UNCHANGED <<ttl, now, turns, pc, sweep, clear, hist, gateVars, toolVars, apiVars>>

\* what llm_with_tools.invoke can do: raise, answer, or ask for a tool (as
\* long as the budget of tool requests the turn explores is not used up)
LLMOutcomes(c) ==
    {"raise", "text"} \cup
    (IF call[c].ncalls < call[c].budget THEN {"tool_calls"} ELSE {})

\* the chatbot node. The local verified_customer is read once: setting
\* state["verified_customer"] changes neither it nor the channel.
chatbot(c) ==
    /\ pc[c] = "loop"
    /\ call[c].node = "chatbot"
    /\ WithinLimit(call[c].steps)
    /\ LET st == call[c].st
           verified_customer == st.verified_customer
       IN IF ~Truthy(verified_customer)
          THEN \* Command(goto="verify_customer"); tools_condition adds END
               /\ call' = [call EXCEPT
                             ![c].node = "verify_customer",
                             ![c].steps = @ + 1]
               /\ checkpoints' = Put(checkpoints, call[c].thread, st)
               /\ pc' = pc
          ELSE \E out \in LLMOutcomes(c) :
                 IF out = "raise"
                 THEN Raise(c, "UpstreamError") /\ checkpoints' = checkpoints
                 ELSE LET new == Update(st, [messages |->
                                   <<AIMessage(call[c].turn, out = "tool_calls")>>])
                      IN /\ call' = [call EXCEPT
                                       ![c].st = new,
                                       ![c].node = tools_condition(new),
                                       ![c].ncalls =
                                           IF out = "tool_calls" THEN @ + 1 ELSE @,
                                       ![c].steps = @ + 1]
                         /\ checkpoints' = Put(checkpoints, call[c].thread, new)
                         /\ pc' = [pc EXCEPT ![c] =
                                     IF tools_condition(new) = "end"
                                     THEN "ttl" ELSE "loop"]
    /\ UNCHANGED <<ttl, now, turns, sweep, clear, hist, gateVars, toolVars, apiVars>>

\* the update verify_customer returns on the legacy path
LegacyUpdate(n, account_id, data) ==
    [verified_customer |-> "True", messages |-> <<SystemMessage(n)>>,
     local_data |-> "False", account_id |-> account_id,
     customer_name |-> data.name, balance |-> "balance",
     days_left |-> "days_left", used |-> "used", read_date |-> "read_date",
     charge_amount |-> "charge_amount"]

\* a local directory update that marks the thread verified and stores nothing
LocalUpdateNoRecord(n, customer) ==
    [verified_customer |-> "True", messages |-> <<SystemMessage(n)>>,
     local_data |-> "True"]

\* the update verify_customer returns on the local directory path
LocalUpdate(n, customer) ==
    [verified_customer |-> "True", messages |-> <<SystemMessage(n)>>,
     local_data |-> "True", account_id |-> customer.account_id,
     customer_name |-> customer.name, registered_address |-> customer.address]

\* the update verify_customer returns when nobody is found
UnknownUpdate(n) ==
    [verified_customer |-> "False", messages |-> <<SystemMessage(n)>>]

\* the verify_customer node: every path ends in Command(goto="chatbot")
verify_customer(c) ==
    /\ pc[c] = "loop"
    /\ call[c].node = "verify_customer"
    /\ WithinLimit(call[c].steps)
    /\ LET st == call[c].st
           n == call[c].turn
           phone_number == st.phone_number
           Goto(upd) ==
               LET new == Update(st, upd)
               IN /\ call' = [call EXCEPT ![c].st = new, ![c].node = "chatbot",
                                          ![c].steps = @ + 1,
                                          ![c].nverify = @ + 1]
                  /\ checkpoints' = Put(checkpoints, call[c].thread, new)
                  /\ pc' = pc
       IN \E account_id \in my_alerts(phone_number) :
            IF account_id # None
            THEN \E data \in my_usage(account_id) :
                   IF ~data.ok
                   THEN \* data is None: data['name'] raises TypeError
                        /\ pc' = [pc EXCEPT ![c] = "failed"]
                        /\ call' = [call EXCEPT ![c].cause = "TypeError",
                                                ![c].nverify = @ + 1]
                        /\ checkpoints' = checkpoints
                   ELSE Goto(LegacyUpdate(n, account_id, data))
            ELSE LET customer == get_customer_by_phone(phone_number)
                 IN IF customer.found
                    THEN Goto(LocalUpdate(n, customer))
                    ELSE Goto(UnknownUpdate(n))
    /\ UNCHANGED <<ttl, now, turns, sweep, clear, hist, gateVars, toolVars, apiVars>>

\* the ToolNode: the tool's string becomes a ToolMessage, or the tool's
\* exception leaves the graph
tools(c) ==
    /\ pc[c] = "loop"
    /\ call[c].node = "tools"
    /\ WithinLimit(call[c].steps)
    /\ \E raised \in BOOLEAN :
         IF raised
         THEN Raise(c, "ToolError") /\ checkpoints' = checkpoints
         ELSE LET new == Update(call[c].st,
                                [messages |-> <<ToolMessage(call[c].turn)>>])
              IN /\ call' = [call EXCEPT ![c].st = new, ![c].node = "chatbot",
                                         ![c].steps = @ + 1]
                 /\ checkpoints' = Put(checkpoints, call[c].thread, new)
                 /\ pc' = pc
    /\ UNCHANGED <<ttl, now, turns, sweep, clear, hist, gateVars, toolVars, apiVars>>

\* the superstep budget is used up while a node is still scheduled
GraphRecursionError(c) ==
    /\ pc[c] = "loop"
    /\ call[c].node \in {"chatbot", "verify_customer", "tools"}
    /\ ~WithinLimit(call[c].steps)
    /\ Raise(c, "GraphRecursionError")
    /\ UNCHANGED <<checkpoints, ttl, now, turns, sweep, clear, hist, gateVars, toolVars, apiVars>>

\* the ttl upsert; its failure is logged and swallowed
UpsertTtl(tt, t, ok) ==
    IF ok THEN {r \in tt : r[1] # t} \cup {<<t, now>>} ELSE tt

\* the stream is exhausted: ttl upsert, then `return last_message.content`
FinishTurn(c) ==
    /\ pc[c] = "ttl"
    /\ \E ok \in BOOLEAN : ttl' = UpsertTtl(ttl, call[c].thread, ok)
    /\ pc' = [pc EXCEPT ![c] = "replied"]
    /\ hist' = [hist EXCEPT ![call[c].thread].at = <<now>>]
    /\ UNCHANGED <<checkpoints, now, turns, call, sweep, clear, gateVars, toolVars, apiVars>>

\* `last_message = event["messages"][-1]` of the last event
last_message(c) == call[c].st.messages[Len(call[c].st.messages)]

\* the caller has its reply or its exception
Return(c) ==
    /\ pc[c] \in {"replied", "failed"}
    /\ pc' = [pc EXCEPT ![c] = "idle"]
    /\ call' = [call EXCEPT ![c] = IdleCall]
    /\ UNCHANGED <<checkpoints, ttl, now, turns, sweep, clear, hist, gateVars, toolVars, apiVars>>

(***************************************************************************)
(* clear_memory and clear_old_checkpoints.                                 *)
(***************************************************************************)
\* a delete that removes nothing
KeepCheckpoints(cp, t) == cp

\* a DELETE without its WHERE clause
DeleteEveryCheckpoint(cp, t) == [u \in DOMAIN cp |-> <<>>]

\* DELETE FROM checkpoints WHERE thread_id = ?; commit
DeleteCheckpoints(cp, t) == [cp EXCEPT ![t] = <<>>]

\* clear_memory(t) as the clear-data route calls it: the delete commits, or
\* sqlite3.Error is raised after a rollback
clear_memory(t) ==
    /\ clear.pc = "idle"
    /\ \E ok \in BOOLEAN :
         IF ok
         THEN /\ checkpoints' = DeleteCheckpoints(checkpoints, t)
              /\ hist' = [hist EXCEPT ![t] =
                            [at |-> <<>>,
                             cleared |-> @.cleared \/ checkpoints[t] # <<>>]]
              /\ clear' = [pc |-> "done", thread |-> t]
         ELSE /\ clear' = [pc |-> "raised", thread |-> t]
              /\ UNCHANGED <<checkpoints, hist>>
    /\ UNCHANGED <<ttl, now, turns, pc, call, sweep, gateVars, toolVars, apiVars>>

ClearReturn ==
    /\ clear.pc # "idle"
    /\ clear' = IdleClear
    /\ UNCHANGED <<checkpoints, ttl, now, turns, pc, call, sweep, hist, gateVars, toolVars, apiVars>>

\* the comparison with the threshold itself counted as stale
IsStaleInclusive(last_time, stale_cutoff) == last_time <= stale_cutoff

\* `last_time < stale_cutoff`
IsStale(last_time, stale_cutoff) == last_time < stale_cutoff

\* now, stale_cutoff and the rows of the ttl table are read; the SELECT may
\* raise, which the outer `except` logs and re-raises
SweepStart ==
    /\ sweep.pc = "idle"
    /\ \E ok \in BOOLEAN :
         sweep' = IF ok
                  THEN [pc |-> "scan", now |-> now,
                        cutoff |-> now - StaleMinutes,
                        rows |-> ttl, todo |-> {r[1] : r \in ttl},
                        failed |-> {}, cleared |-> 0, result |-> <<>>]
                  ELSE [IdleSweep EXCEPT !.pc = "raised"]
    /\ UNCHANGED <<checkpoints, ttl, now, turns, pc, call, clear, hist, gateVars, toolVars, apiVars>>

\* a row failure that ends the sweep with the exception
AbortOnRowError(sw, t) ==
    [sw EXCEPT !.pc = "raised", !.failed = @ \cup {t}]

\* `except Exception as e: checkpoint_logger.error(...)`: the row is logged
\* and the loop goes on
LogRowError(sw, t) ==
    [sw EXCEPT !.todo = @ \ {t}, !.failed = @ \cup {t}]

\* one iteration of `for thread_id, last_message_time in rows`
SweepRow(t) ==
    /\ sweep.pc = "scan"
    /\ t \in sweep.todo
    /\ LET last_time == (CHOOSE r \in sweep.rows : r[1] = t)[2]
       IN IF IsStale(last_time, sweep.cutoff)
          THEN \E ok \in BOOLEAN :
                 IF ok
                 THEN /\ checkpoints' = DeleteCheckpoints(checkpoints, t)
                      /\ hist' = [hist EXCEPT
                                    ![t].cleared = @ \/ checkpoints[t] # <<>>]
                      /\ sweep' = [sweep EXCEPT !.todo = @ \ {t},
                                                !.cleared = @ + 1]
                 ELSE /\ sweep' = LogRowError(sweep, t)
                      /\ UNCHANGED <<checkpoints, hist>>
          ELSE /\ sweep' = [sweep EXCEPT !.todo = @ \ {t}]
               /\ UNCHANGED <<checkpoints, hist>>
    /\ UNCHANGED <<ttl, now, turns, pc, call, clear, gateVars, toolVars, apiVars>>

\* what clear_old_checkpoints hands back, <<>> standing for None: `cleared`
\* is only logged, and the function has no return statement
ReturnValue(sw) == <<>>

\* the loop is over
SweepEnd ==
    /\ sweep.pc = "scan"
    /\ sweep.todo = {}
    /\ sweep' = [sweep EXCEPT !.pc = "done", !.result = ReturnValue(sweep)]
    /\ UNCHANGED <<checkpoints, ttl, now, turns, pc, call, clear, hist, gateVars, toolVars, apiVars>>

\* the sweep is over: it returns None or its exception
SweepReturn ==
    /\ sweep.pc \in {"done", "raised"}
    /\ sweep' = IdleSweep
    /\ UNCHANGED <<checkpoints, ttl, now, turns, pc, call, clear, hist, gateVars, toolVars, apiVars>>

(***************************************************************************)
(* The verification gate: DatabaseManager on phone_verifications.          *)
(***************************************************************************)
\* session ids a caller may pass; None is SQL NULL
Sessions == {"s1", None}

\* `session.query(Account).filter(Account.phone == phone_number).first()`
AccountByPhone(p) == get_customer_by_phone(p)

\* the row verify_phone_number inserts
VerificationRow(p, account_id, s) ==
    [phone_number |-> p, account_id |-> account_id, session_id |-> s,
     verified_at |-> now, verification_method |-> "ui_verification",
     is_active |-> 1]

\* SELECT ... WHERE is_active = 1
ActiveRows(rows) == SelectSeq(rows, LAMBDA r : r.is_active = 1)

\* a lookup that never finds an existing verification
NoExistingVerification(rows, p) == FALSE

\* SELECT id ... WHERE phone_number = :phone_number AND is_active = 1
ExistingVerification(rows, p) ==
    \E i \in 1..Len(rows) : rows[i].phone_number = p /\ rows[i].is_active = 1

\* a DELETE that removes nothing
KeepAll(rows) == rows

\* DELETE FROM phone_verifications
DeleteAll(rows) == <<>>

\* get_active_phone_verification: ORDER BY verified_at DESC LIMIT 1 over the
\* active rows; the set of rows the query may return (ties are unordered)
get_active_phone_verification(rows) ==
    LET act == ActiveRows(rows)
    IN {act[i] : i \in {j \in 1..Len(act) :
                          \A k \in 1..Len(act) :
                              act[k].verified_at <= act[j].verified_at}}

\* check_phone_verification_status(p).verified
check_phone_verification_status(rows, p) ==
    AccountByPhone(p).found /\ ExistingVerification(rows, p)

\* a gate call ends: the value it returns is in gate.result
GateDone(op, p, s, result, before) ==
    [gate EXCEPT !.pc = "returned", !.op = op, !.phone = p, !.session = s,
                 !.result = result, !.tx = <<>>, !.pre = before]

\* verify_phone_number up to the first write: the account lookup and the
\* already-verified check, both of which return without writing
VerifyBegin(p, s) ==
    /\ gate.pc = "idle"
    /\ LET rep == gate.prev.op = "verify" /\ gate.prev.phone = p
                  /\ gate.prev.result
       IN IF ~AccountByPhone(p).found
          THEN gate' = [GateDone("verify", p, s, FALSE, table)
                          EXCEPT !.repeat = rep]
          ELSE IF ExistingVerification(table, p)
          THEN gate' = [GateDone("verify", p, s, TRUE, table)
                          EXCEPT !.repeat = rep]
          ELSE gate' = [gate EXCEPT !.pc = "delete", !.op = "verify",
                                    !.phone = p, !.session = s, !.tx = table,
                                    !.pre = table, !.repeat = rep]
    /\ UNCHANGED <<table, now, orchVars, raceVars, toolVars, apiVars>>

\* the DELETE opens the transaction; if it raises, False is returned
VerifyDelete ==
    /\ gate.pc = "delete"
    /\ \E ok \in BOOLEAN :
         IF ok
         THEN gate' = [gate EXCEPT !.pc = "insert", !.tx = DeleteAll(gate.tx)]
         ELSE gate' = [GateDone("verify", gate.phone, gate.session, FALSE,
                                gate.pre) EXCEPT !.repeat = gate.repeat]
    /\ UNCHANGED <<table, now, orchVars, raceVars, toolVars, apiVars>>

\* the INSERT. If it raises, `except Exception` returns False inside the
\* `with` block, so get_session commits what the transaction holds: the
\* DELETE, unless SQLite has rolled the transaction back on the error.
VerifyInsert ==
    /\ gate.pc = "insert"
    /\ \E ok \in BOOLEAN :
         IF ok
         THEN /\ gate' = [gate EXCEPT
                            !.pc = "commit",
                            !.tx = Append(gate.tx,
                                     VerificationRow(gate.phone,
                                        AccountByPhone(gate.phone).account_id,
                                        gate.session))]
              /\ table' = table
         ELSE /\ gate' = [GateDone("verify", gate.phone, gate.session, FALSE,
                                   gate.pre) EXCEPT !.repeat = gate.repeat]
              /\ table' \in {gate.tx, table}
    /\ UNCHANGED <<now, orchVars, raceVars, toolVars, apiVars>>

\* `return True`, then get_session's session.commit()
VerifyCommit ==
    /\ gate.pc = "commit"
    /\ table' = gate.tx
    /\ gate' = [GateDone("verify", gate.phone, gate.session, TRUE, gate.pre)
                  EXCEPT !.repeat = gate.repeat]
    /\ UNCHANGED <<now, orchVars, raceVars, toolVars, apiVars>>

\* UPDATE phone_verifications SET is_active = 0 WHERE phone_number = :p
deactivate_phone_verification(p) ==
    /\ gate.pc = "idle"
    /\ table' = [i \in 1..Len(table) |->
                   IF table[i].phone_number = p
                   THEN [table[i] EXCEPT !.is_active = 0] ELSE table[i]]
    /\ gate' = [GateDone("deactivate", p, None,
                         \E i \in 1..Len(table) : table[i].phone_number = p,
                         table) EXCEPT !.repeat = FALSE]
    /\ UNCHANGED <<now, orchVars, raceVars, toolVars, apiVars>>

\* the rows DELETE ... WHERE session_id = :session_id leaves
\* (NULL = NULL is not true in SQL: a None session matches no row)
ClearBySession(rows, s) ==
    SelectSeq(rows, LAMBDA r : ~(s # None /\ r.session_id = s))

\* DELETE FROM phone_verifications WHERE session_id = :session_id
clear_phone_verifications_by_session(s) ==
    /\ gate.pc = "idle"
    /\ LET hit(r) == s # None /\ r.session_id = s
       IN /\ table' = ClearBySession(table, s)
          /\ gate' = [GateDone("clear_session", None, s,
                               \E i \in 1..Len(table) : hit(table[i]), table)
                        EXCEPT !.repeat = FALSE]
    /\ UNCHANGED <<now, orchVars, raceVars, toolVars, apiVars>>

\* DELETE FROM phone_verifications
clear_all_phone_verifications ==
    /\ gate.pc = "idle"
    /\ table' = DeleteAll(table)
    /\ gate' = [GateDone("clear_all", None, None, TRUE, table)
                  EXCEPT !.repeat = FALSE]
    /\ UNCHANGED <<now, orchVars, raceVars, toolVars, apiVars>>

\* the caller has the result; the call is remembered as the previous one
GateReturn ==
    /\ gate.pc = "returned"
    /\ gate' = [IdleGate EXCEPT !.prev = [op |-> gate.op, phone |-> gate.phone,
                                          result |-> gate.result]]
    /\ UNCHANGED <<table, now, orchVars, raceVars, toolVars, apiVars>>

\* a sequence of gate calls, with the clock moving between them
NextGate ==
    \/ gate.pc = "idle" /\ \E d \in TickSteps : Tick(d)
    \/ \E p \in Phones, s \in Sessions : VerifyBegin(p, s)
    \/ VerifyDelete
    \/ VerifyInsert
    \/ VerifyCommit
    \/ \E p \in Phones : deactivate_phone_verification(p)
    \/ \E s \in Sessions : clear_phone_verifications_by_session(s)
    \/ clear_all_phone_verifications
    \/ GateReturn

SpecGate == Init /\ [][NextGate]_vars

(***************************************************************************)
(* Overlapping verify_phone_number calls. Every call has its own session   *)
(* and connection; SELECTs read the committed table, the first write takes *)
(* SQLite's write lock, which is held until commit or rollback.            *)
(***************************************************************************)
\* the call of caller c returns; its session ends
VerifierDone(c, result) ==
    [verifier EXCEPT ![c].pc = "returned", ![c].result = result,
                     ![c].tx = <<>>]

\* the account lookup
ConcVerifyBegin(c, p, s) ==
    /\ verifier[c].pc = "idle"
    /\ verifier' = IF AccountByPhone(p).found
                   THEN [verifier EXCEPT ![c] =
                           [IdleVerifier EXCEPT !.pc = "check", !.phone = p,
                                                !.session = s]]
                   ELSE [verifier EXCEPT ![c] =
                           [IdleVerifier EXCEPT !.pc = "returned", !.phone = p,
                                                !.session = s]]
    /\ UNCHANGED <<table, writer, gate, now, orchVars, toolVars, apiVars>>

\* the already-verified check, on the committed rows
ConcVerifyCheck(c) ==
    /\ verifier[c].pc = "check"
    /\ verifier' = IF ExistingVerification(table, verifier[c].phone)
                   THEN VerifierDone(c, TRUE)
                   ELSE [verifier EXCEPT ![c].pc = "delete"]
    /\ UNCHANGED <<table, writer, gate, now, orchVars, toolVars, apiVars>>

\* the DELETE: it takes the write lock, or raises (the lock is held by the
\* other call until the busy timeout, or another error) and False is returned
ConcVerifyDelete(c) ==
    /\ verifier[c].pc = "delete"
    /\ \E ok \in BOOLEAN :
         IF ok /\ writer.holder = None
         THEN /\ verifier' = [verifier EXCEPT ![c].pc = "insert",
                                              ![c].tx = DeleteAll(table)]
              /\ writer' = [writer EXCEPT !.holder = c]
         ELSE /\ verifier' = VerifierDone(c, FALSE)
              /\ writer' = writer
    /\ UNCHANGED <<table, gate, now, orchVars, toolVars, apiVars>>

\* the INSERT; when it raises, False is returned inside the `with` block and
\* get_session commits what the transaction holds
ConcVerifyInsert(c) ==
    /\ verifier[c].pc = "insert"
    /\ writer.holder = c
    /\ \E ok \in BOOLEAN :
         IF ok
         THEN /\ verifier' = [verifier EXCEPT
                                ![c].pc = "commit",
                                ![c].tx = Append(@,
                                   VerificationRow(verifier[c].phone,
                                      AccountByPhone(verifier[c].phone).account_id,
                                      verifier[c].session))]
              /\ UNCHANGED <<table, writer>>
         ELSE /\ verifier' = VerifierDone(c, FALSE)
              /\ table' \in {verifier[c].tx, table}
              /\ writer' = [writer EXCEPT !.holder = None]
    /\ UNCHANGED <<gate, now, orchVars, toolVars, apiVars>>

\* `return True`, then session.commit(): the lock is released
ConcVerifyCommit(c) ==
    /\ verifier[c].pc = "commit"
    /\ writer.holder = c
    /\ table' = verifier[c].tx
    /\ writer' = [holder |-> None, last |-> verifier[c].phone]
    /\ verifier' = VerifierDone(c, TRUE)
    /\ UNCHANGED <<gate, now, orchVars, toolVars, apiVars>>

\* the caller has the result
ConcVerifyReturn(c) ==
    /\ verifier[c].pc = "returned"
    /\ verifier' = [verifier EXCEPT ![c] = IdleVerifier]
    /\ UNCHANGED <<table, writer, gate, now, orchVars, toolVars, apiVars>>

NextRace ==
    \E c \in Callers :
        \/ \E p \in Phones, s \in Sessions : ConcVerifyBegin(c, p, s)
        \/ ConcVerifyCheck(c)
        \/ ConcVerifyDelete(c)
        \/ ConcVerifyInsert(c)
        \/ ConcVerifyCommit(c)
        \/ ConcVerifyReturn(c)

SpecRace == Init /\ [][NextRace]_vars

(***************************************************************************)
(* The tools (app/agent/tools.py), as functions of the injected state, of  *)
(* what the database holds and of what the collaborators answer. The       *)
(* outcome is "text" when the tool returns a string, and the name of the   *)
(* exception when it raises.                                               *)
(***************************************************************************)
\* the values local_data can have in the state
LocalDataValues == {None, "True", "False"}

\* get_billing_by_customer_id: the BillingInfo row, or None
BillingRows == {None, "billing"}

\* the snapshot balance in the state: a number, or None
Balances == {None, "balance"}

\* get_bill_balance
get_bill_balance(local_data, billing_info, balance) ==
    IF Truthy(local_data)
    THEN \* billing_info.current_balance
         IF billing_info = None THEN "AttributeError" ELSE "text"
    ELSE \* `elif not local_data`: f"{balance:.2f}"
         IF balance = None THEN "TypeError" ELSE "text"

\* get_payment_link
get_payment_link(local_data, billing_info, balance) ==
    IF Truthy(local_data)
    THEN IF billing_info = None THEN "AttributeError" ELSE "text"
    ELSE IF balance = None THEN "TypeError" ELSE "text"

\* the arguments of report_outage and the answers of its collaborators
Addresses == {None, "address"}
AddressTypes == {None, "registered", "new"}
\* what the time-extraction prompt yields: "absent", an ISO timestamp, or
\* some other text
ExtractedTimes == {"absent", "iso", "other"}

\* report_outage; verified is validate_customer_address's verdict, time is
\* extracted_time, inserted tells whether create_outage's insert commits
report_outage(address, address_type, local_data, verified, time, inserted) ==
    IF address = None /\ ~(address_type = "registered" /\ Truthy(local_data))
    THEN "text"
    ELSE IF ~verified THEN "text"
    ELSE IF time = "absent" THEN "text"
    ELSE IF time # "iso" THEN "ValueError"
    ELSE IF ~inserted THEN "DatabaseError"
    ELSE "text"

\* the ToolNode invokes get_bill_balance
CallGetBillBalance ==
    /\ \E local_data \in LocalDataValues, billing_info \in BillingRows,
          balance \in Balances :
         toolcall' = [tool |-> "get_bill_balance",
                      input |-> <<local_data, billing_info, balance>>,
                      outcome |-> get_bill_balance(local_data, billing_info,
                                                   balance)]
    /\ UNCHANGED <<now, orchVars, gateVars, apiVars>>

\* the ToolNode invokes get_payment_link
CallGetPaymentLink ==
    /\ \E local_data \in LocalDataValues, billing_info \in BillingRows,
          balance \in Balances :
         toolcall' = [tool |-> "get_payment_link",
                      input |-> <<local_data, billing_info, balance>>,
                      outcome |-> get_payment_link(local_data, billing_info,
                                                   balance)]
    /\ UNCHANGED <<now, orchVars, gateVars, apiVars>>

\* the ToolNode invokes report_outage
CallReportOutage ==
    /\ \E address \in Addresses, address_type \in AddressTypes,
          local_data \in LocalDataValues, verified \in BOOLEAN,
          extracted_time \in ExtractedTimes, inserted \in BOOLEAN :
         toolcall' = [tool |-> "report_outage",
                      input |-> <<address, address_type, local_data, verified,
                                  extracted_time, inserted>>,
                      outcome |-> report_outage(address, address_type,
                                                local_data, verified,
                                                extracted_time, inserted)]
    /\ UNCHANGED <<now, orchVars, gateVars, apiVars>>

NextTools ==
    \/ CallGetBillBalance
    \/ CallGetPaymentLink
    \/ CallReportOutage

SpecTools == Init /\ [][NextTools]_vars

(***************************************************************************)
(* The tools and the route that work on the verification records: the      *)
(* verify_phone_number tool, get_meter_reading, analyze_usage_patterns and *)
(* POST /clear-data. A tool runs in a thread whose injected state carries  *)
(* the phone number of the thread's customer.                              *)
(***************************************************************************)
\* what the model may pass to the verify_phone_number tool
VerifyInputs == {"", "bad"} \cup Phones

\* re.match(r"^\d{10}$", phone_number)
IsTenDigits(p) == p \in Phones

\* `${billing_info.current_balance:.2f if billing_info else 'N/A'}`: the
\* text after the colon is the format specification, so formatting raises
FormatBalance(billing_info) ==
    IF billing_info = None THEN "AttributeError" ELSE "ValueError"

\* the text the verify_phone_number tool returns after the database call
verify_phone_number_text(verification_success, billing_info) ==
    IF ~verification_success THEN "VERIFICATION FAILED"
    ELSE IF FormatBalance(billing_info) \in {"AttributeError", "ValueError"}
    THEN "VERIFICATION ERROR"
    ELSE "VERIFICATION SUCCESSFUL"

\* the tool is invoked in thread t: the two format checks
ToolVerifyCall(t, p) ==
    /\ gate.pc = "idle"
    /\ toolcall.outcome # "calling"
    /\ toolcall' = [tool |-> "verify_phone_number", input |-> <<t, p>>,
                    outcome |-> IF p = "" THEN "provide a phone number"
                                ELSE IF ~IsTenDigits(p) THEN "provide a valid number"
                                ELSE "calling"]
    /\ UNCHANGED <<now, orchVars, gateVars, apiVars>>

\* `db_manager.verify_phone_number(phone_number)`: no session_id is passed
ToolVerifyDb ==
    /\ toolcall.tool = "verify_phone_number"
    /\ toolcall.outcome = "calling"
    /\ VerifyBegin(toolcall.input[2], None)

\* the database call has returned: the tool builds its text
ToolVerifyText ==
    /\ toolcall.tool = "verify_phone_number"
    /\ toolcall.outcome = "calling"
    /\ gate.pc = "returned"
    /\ \E billing_info \in BillingRows :
         toolcall' = [toolcall EXCEPT
                        !.outcome = verify_phone_number_text(gate.result,
                                                             billing_info)]
    /\ UNCHANGED <<now, orchVars, gateVars, apiVars>>

\* get_meter_reading and analyze_usage_patterns: whose data the text shows.
\* Both take the phone number from get_active_phone_verification().
get_meter_reading(rows) ==
    IF get_active_phone_verification(rows) = {}
    THEN {"PHONE VERIFICATION REQUIRED"}
    ELSE {IF get_customer_by_phone(r.phone_number).found
          THEN get_customer_by_phone(r.phone_number).account_id
          ELSE "No customer found" : r \in get_active_phone_verification(rows)}

analyze_usage_patterns(rows) == get_meter_reading(rows)

\* the ToolNode invokes get_meter_reading in thread t, whose state holds
\* phone_number
CallGetMeterReading(t, phone_number) ==
    /\ gate.pc = "idle"
    /\ toolcall.outcome # "calling"
    /\ \E out \in get_meter_reading(table) :
         toolcall' = [tool |-> "get_meter_reading",
                      input |-> <<t, phone_number>>, outcome |-> out]
    /\ UNCHANGED <<now, orchVars, gateVars, apiVars>>

\* the ToolNode invokes analyze_usage_patterns in thread t
CallAnalyzeUsagePatterns(t, phone_number) ==
    /\ gate.pc = "idle"
    /\ toolcall.outcome # "calling"
    /\ \E out \in analyze_usage_patterns(table) :
         toolcall' = [tool |-> "analyze_usage_patterns",
                      input |-> <<t, phone_number>>, outcome |-> out]
    /\ UNCHANGED <<now, orchVars, gateVars, apiVars>>

\* POST /clear-data: agent.clear_memory(session_id), then, when a phone
\* number was sent, clear_phone_verifications_by_session(session_id); a
\* failure of clear_memory is answered with 500 before the second call
clear_data(p, s) ==
    /\ gate.pc = "idle"
    /\ toolcall.outcome # "calling"
    /\ \E ok \in BOOLEAN :
         IF ok
         THEN /\ checkpoints' = DeleteCheckpoints(checkpoints, s)
              /\ table' = IF p # "" THEN ClearBySession(table, s) ELSE table
              /\ gate' = [GateDone("clear_data", p, s, TRUE, table)
                            EXCEPT !.repeat = FALSE]
         ELSE /\ checkpoints' = checkpoints
              /\ table' = table
              /\ gate' = [GateDone("clear_data", p, s, FALSE, table)
                            EXCEPT !.repeat = FALSE]
    /\ UNCHANGED <<ttl, now, turns, pc, call, sweep, clear, hist, raceVars,
                   toolVars, apiVars>>

\* one tool or route call at a time, in any thread
NextAccess ==
    \/ gate.pc = "idle" /\ \E d \in TickSteps : Tick(d)
    \/ \E t \in Threads, p \in VerifyInputs : ToolVerifyCall(t, p)
    \/ ToolVerifyDb
    \/ VerifyDelete
    \/ VerifyInsert
    \/ VerifyCommit
    \/ ToolVerifyText
    \/ toolcall.outcome # "calling" /\ GateReturn
    \/ \E t \in Threads, p \in DirectoryPhones : CallGetMeterReading(t, p)
    \/ \E t \in Threads, p \in DirectoryPhones : CallAnalyzeUsagePatterns(t, p)
    \/ \E p \in {""} \cup DirectoryPhones, s \in Threads : clear_data(p, s)

SpecAccess == Init /\ [][NextAccess]_vars

(***************************************************************************)
(* Specifications of the orchestrator.                                     *)
(***************************************************************************)
\* the steps of a process_message call in flight
TurnSteps ==
    \/ \E c \in Callers : PutInput(c)
    \/ \E c \in Callers : chatbot(c)
    \/ \E c \in Callers : verify_customer(c)
    \/ \E c \in Callers : tools(c)
    \/ \E c \in Callers : GraphRecursionError(c)
    \/ \E c \in Callers : FinishTurn(c)
    \/ \E c \in Callers : Return(c)
    \/ ClearReturn

\* the steps of a sweep in flight
SweepSteps ==
    \/ \E t \in Threads : SweepRow(t)
    \/ SweepEnd
    \/ SweepReturn

\* turns and clears, one request at a time, any phone number
Next ==
    \/ Quiet /\ \E c \in SeqCallers, t \in Threads : RejectTurn(c, t)
    \/ Quiet /\ \E c \in SeqCallers, t \in Threads, p \in Phones : StartTurn(c, t, p)
    \/ Quiet /\ \E t \in Threads : clear_memory(t)
    \/ TurnSteps

Spec == Init /\ [][Next]_vars

\* turns, clears, the clock and the sweep, one operation at a time
NextSweep ==
    \/ Quiet /\ \E d \in TickSteps : Tick(d)
    \/ Quiet /\ \E c \in SeqCallers, t \in Threads, p \in SweepPhones : StartTurn(c, t, p)
    \/ Quiet /\ \E t \in Threads : clear_memory(t)
    \/ Quiet /\ SweepStart
    \/ TurnSteps
    \/ SweepSteps

SpecSweep == Init /\ [][NextSweep]_vars

\* clear_old_checkpoints is a sequential loop: once started it runs on
SpecSweepFair == SpecSweep /\ WF_vars(SweepSteps)

\* ---- POST /chat (routes/api.py) ----

Messages == {"", "hi"}
RequestPhones == {""} \cup Phones
SessionIds == Threads \cup {None}

\* how agent.process_message ends for the route: with a reply or an exception
ProcessOutcomes == {"reply", "ValueError", "sqlite3.Error", "Exception"}

HTTPException(status_code) ==
    [type |-> "HTTPException", status_code |-> status_code]

\* `except Exception as e:` of the outer try: HTTPException is an Exception,
\* so whatever was raised inside is replaced by a 500
OuterExcept(exc) == HTTPException(500)

\* the except clauses of the inner try, in order
InnerExcept(exc) ==
    IF exc.type = "ValueError" THEN HTTPException(400)
    ELSE IF exc.type = "sqlite3.Error" THEN HTTPException(500)
    ELSE HTTPException(500)

\* the request body passed pydantic's ChatRequest
ChatArrive(m, p, s, use_tts) ==
    /\ request.pc = "idle"
    /\ request' = [NoRequest EXCEPT !.pc = "validate", !.message = m,
                                    !.phone_number = p, !.session_id = s,
                                    !.use_tts = use_tts]
    /\ UNCHANGED <<now, orchVars, gateVars, toolVars>>

\* `if not user_message` / `if not phone_number`, inside the outer try
ChatValidate ==
    /\ request.pc = "validate"
    /\ request' =
         IF request.message = "" \/ request.phone_number = ""
         THEN [request EXCEPT !.pc = "outer", !.exc = HTTPException(400)]
         ELSE [request EXCEPT !.pc = "process"]
    /\ UNCHANGED <<now, orchVars, gateVars, toolVars>>

\* the inner try: process_message, then the optional text-to-speech
ChatProcess ==
    /\ request.pc = "process"
    /\ \E out \in ProcessOutcomes, tts_ok \in BOOLEAN :
         request' =
           IF out # "reply"
           THEN [request EXCEPT !.pc = "inner", !.cause = out,
                                !.exc = [type |-> out, status_code |-> 0]]
           ELSE IF request.use_tts /\ ~tts_ok
           THEN [request EXCEPT !.pc = "inner", !.cause = "tts",
                                !.exc = [type |-> "Exception", status_code |-> 0]]
           ELSE [request EXCEPT !.pc = "done", !.status_code = 200]
    /\ UNCHANGED <<now, orchVars, gateVars, toolVars>>

\* an except clause of the inner try raises its HTTPException
ChatInnerExcept ==
    /\ request.pc = "inner"
    /\ request' = [request EXCEPT !.pc = "outer", !.exc = InnerExcept(request.exc)]
    /\ UNCHANGED <<now, orchVars, gateVars, toolVars>>

\* the outer except clause raises the HTTPException the client receives
ChatOuterExcept ==
    /\ request.pc = "outer"
    /\ request' = [request EXCEPT !.pc = "done",
                                  !.exc = OuterExcept(request.exc),
                                  !.status_code = OuterExcept(request.exc).status_code]
    /\ UNCHANGED <<now, orchVars, gateVars, toolVars>>

\* the response is sent; the client holds its status code
ChatRespond ==
    /\ request.pc = "done"
    /\ request' = [request EXCEPT !.pc = "idle"]
    /\ UNCHANGED <<now, orchVars, gateVars, toolVars>>

NextApi ==
    \/ \E m \in Messages, p \in RequestPhones, s \in SessionIds, use_tts \in BOOLEAN :
         ChatArrive(m, p, s, use_tts)
    \/ ChatValidate
    \/ ChatProcess
    \/ ChatInnerExcept
    \/ ChatOuterExcept
    \/ ChatRespond

SpecApi == Init /\ [][NextApi]_vars

\* one request at a time, with a model that may ask for a tool on every call
NextChain ==
    \/ Quiet /\ \E c \in SeqCallers, t \in Threads, p \in SweepPhones :
                   StartChainTurn(c, t, p)
    \/ \E c \in SeqCallers :
          \/ PutInput(c)
          \/ chatbot(c)
          \/ verify_customer(c)
          \/ tools(c)
          \/ GraphRecursionError(c)
          \/ FinishTurn(c)
          \/ Return(c)

\* graph.stream runs the graph synchronously: a turn in flight keeps going
SpecChain == Init /\ [][NextChain]_vars /\ WF_vars(NextChain)

\* requests, clears and sweeps overlap
ConcSteps ==
    \/ \E c \in Callers : PutInput(c)
    \/ \E c \in Callers : chatbot(c)
    \/ \E c \in Callers : verify_customer(c)
    \/ \E c \in Callers : tools(c)
    \/ \E c \in Callers : GraphRecursionError(c)
    \/ \E c \in Callers : FinishTurn(c)
    \/ \E c \in Callers : Return(c)

NextConc ==
    \/ \E d \in ConcTickSteps : Tick(d)
    \/ \E c \in Callers, t \in Threads, p \in SweepPhones : StartTurn(c, t, p)
    \/ SweepStart
    \/ ConcSteps
    \/ SweepSteps

SpecConc == Init /\ [][NextConc]_vars

(***************************************************************************)
(* Properties of the orchestrator.                                         *)
(***************************************************************************)
IsPrefix(a, b) == Len(a) <= Len(b) /\ \A i \in 1..Len(a) : a[i] = b[i]

\* the messages of the checkpoint a call loaded when it began
PreMessages(c) == IF call[c].pre = <<>> THEN <<>> ELSE call[c].pre[1].messages

\* the messages of the latest checkpoint of a thread
Stored(t) == IF checkpoints[t] = <<>> THEN <<>> ELSE checkpoints[t][1].messages

\* C1: when process_message returns a reply, the checkpoint of the thread
\* holds every message it held before the turn, then the new user message,
\* then (later) the assistant message that was returned.
C1_CheckpointHoldsTurn ==
    \A c \in Callers :
        pc[c] = "replied" =>
            LET t == call[c].thread
                old == PreMessages(c)
                ms == Stored(t)
            IN /\ checkpoints[t] # <<>>
               /\ IsPrefix(old, ms)
               /\ Len(ms) >= Len(old) + 2
               /\ ms[Len(old) + 1] = HumanMessage(call[c].turn)
               /\ last_message(c).role = "ai"
               /\ \E j \in (Len(old) + 2)..Len(ms) : ms[j] = last_message(c)

\* a reply on a thread that already had a conversation
C1_Witness ==
    \E c \in Callers :
        /\ pc[c] = "replied"
        /\ Len(PreMessages(c)) >= 2
        /\ Len(Stored(call[c].thread)) > Len(PreMessages(c))

\* C3: a turn that fails after a node has run leaves the checkpoint of its
\* thread exactly as it was before the turn.
C3_FailedTurnLeavesPreState ==
    \A c \in Callers :
        (pc[c] = "failed" /\ call[c].steps >= 1) =>
            checkpoints[call[c].thread] = call[c].pre

\* C4: for a phone number that neither lookup resolves, verify_customer runs
\* at most once in a turn and the turn does not end in the recursion limit.
C4_UnknownPhoneConverses ==
    \A c \in Callers :
        (pc[c] # "idle" /\ call[c].phone \in Phones
         /\ call[c].phone \notin (LegacyPhones \cup DirectoryPhones)) =>
            /\ call[c].nverify <= 1
            /\ call[c].cause # "GraphRecursionError"

\* C5: when two calls on one thread have both replied, the checkpoint of the
\* thread holds the user message of both turns.
C5_NoLostUpdate ==
    \A c \in Callers, d \in Callers :
        (c # d /\ pc[c] = "replied" /\ pc[d] = "replied"
         /\ call[c].thread = call[d].thread
         /\ checkpoints[call[c].thread] # <<>>) =>
            LET ms == Stored(call[c].thread)
            IN /\ \E i \in 1..Len(ms) : ms[i] = HumanMessage(call[c].turn)
               /\ \E i \in 1..Len(ms) : ms[i] = HumanMessage(call[d].turn)

\* a ttl row is stale at the time of the sweep: older than 45 minutes
StaleAtSweep(t) ==
    \E r \in sweep.rows : r[1] = t /\ sweep.now - r[2] > StaleMinutes

\* the sweep has just handled the row of thread t
Visited(t) == t \in sweep.todo /\ t \notin sweep'.todo

\* C8: a sweep clears the checkpoint of each thread whose ttl row is more
\* than 45 minutes old (when its delete succeeds) and changes the checkpoint
\* of no other thread.
C8_SweepClearsExactlyStale ==
    [][sweep.pc = "scan" =>
         \A t \in Threads :
            /\ (Visited(t) /\ StaleAtSweep(t) /\ t \notin sweep'.failed)
                   => checkpoints'[t] = <<>>
            /\ ~(Visited(t) /\ StaleAtSweep(t))
                   => checkpoints'[t] = checkpoints[t]]_vars

\* a finished sweep that cleared a thread idle for 46 minutes and kept the
\* checkpoint of a thread idle for 15
C8_Witness ==
    /\ sweep.pc = "done"
    /\ sweep.cleared = 1
    /\ \E r \in sweep.rows :
         /\ sweep.now - r[2] = StaleMinutes + 1
         /\ r[1] \notin sweep.failed
         /\ checkpoints[r[1]] = <<>>
    /\ \E r \in sweep.rows :
         /\ sweep.now - r[2] = 15
         /\ checkpoints[r[1]] # <<>>

\* C9: a thread that replied within the last 45 minutes has a checkpoint.
C9_ActiveThreadKeepsCheckpoint ==
    \A t \in Threads :
        (hist[t].at # <<>> /\ now - hist[t].at[1] <= StaleMinutes) =>
            checkpoints[t] # <<>>

\* C10: the first turn on a thread after its checkpoint was cleared starts
\* from the empty state: nothing was loaded, every message of the state and
\* of the new checkpoint belongs to this turn, and a reply is preceded by a
\* run of verify_customer.
C10_FreshAfterClear ==
    \A c \in Callers :
        (pc[c] # "idle" /\ call[c].fresh) =>
            LET ms == Stored(call[c].thread)
            IN /\ call[c].pre = <<>>
               /\ call[c].node = "input" => call[c].st = EmptyState
               /\ \A i \in 1..Len(call[c].st.messages) :
                      call[c].st.messages[i].turn = call[c].turn
               /\ \A i \in 1..Len(ms) : ms[i].turn = call[c].turn
               /\ pc[c] = "replied" =>
                      /\ call[c].nverify >= 1
                      /\ ms[1] = HumanMessage(call[c].turn)

\* a reply in the first turn after the clearing of an existing conversation
C10_Witness ==
    \E c \in Callers :
        /\ pc[c] = "replied"
        /\ call[c].fresh
        /\ call[c].turn >= 2
        /\ Len(Stored(call[c].thread)) >= 3

(***************************************************************************)
(* Properties of the verification gate.                                    *)
(***************************************************************************)
\* a verify_phone_number call has returned
Verified(result) ==
    gate.pc = "returned" /\ gate.op = "verify" /\ gate.result = result

\* C2: the table never holds two active records, and after a successful
\* verify_phone_number(p) get_active_phone_verification returns one record,
\* that of p, and no other number is verified.
C2_SingleActiveRecord ==
    /\ Len(ActiveRows(table)) <= 1
    /\ Verified(TRUE) =>
         /\ Cardinality(get_active_phone_verification(table)) = 1
         /\ \A r \in get_active_phone_verification(table) :
                r.phone_number = gate.phone
         /\ \A q \in Phones \ {gate.phone} :
                ~check_phone_verification_status(table, q)

\* a successful verification of one number while another one was verified
C2_Witness ==
    /\ Verified(TRUE)
    /\ \E i \in 1..Len(gate.pre) :
         /\ gate.pre[i].is_active = 1
         /\ gate.pre[i].phone_number # gate.phone
    /\ \E i \in 1..Len(table) : table[i].phone_number = gate.phone

\* C6: a verify_phone_number call that returns failure leaves the table as
\* it was.
C6_FailureChangesNothing ==
    Verified(FALSE) => table = gate.pre

\* C7: verify_phone_number(p) right after a successful verify_phone_number(p)
\* succeeds and leaves the record (phone_number, account_id, verified_at,
\* session_id) as it was.
C7_VerifyTwiceSameRecord ==
    (gate.pc = "returned" /\ gate.op = "verify" /\ gate.repeat) =>
        /\ gate.result
        /\ table = gate.pre
        /\ get_active_phone_verification(table)
              = get_active_phone_verification(gate.pre)

\* a repeated verification made later and under another session id than the
\* one recorded
C7_Witness ==
    /\ Verified(TRUE)
    /\ gate.repeat
    /\ \E r \in get_active_phone_verification(table) :
         /\ r.phone_number = gate.phone
         /\ r.verified_at < now
         /\ r.session_id # gate.session

\* C11: whenever process_message has returned a reply for a thread, the ttl
\* table holds a row for the thread whose last_message_time is the time the
\* turn completed.
C11_ReplyHasTtlRecord ==
    \A c \in Callers :
        pc[c] = "replied" =>
            /\ hist[call[c].thread].at # <<>>
            /\ <<call[c].thread, hist[call[c].thread].at[1]>> \in ttl

\* no verify_phone_number call is in flight
RaceQuiet == \A c \in Callers : verifier[c].pc \in {"idle", "returned"}

\* C12: once overlapping verify_phone_number calls have ended and at least
\* one of them committed a record, the table holds exactly one active
\* record, that of the call which committed last; and never two.
C12_LastCommitWins ==
    /\ Len(ActiveRows(table)) <= 1
    /\ (RaceQuiet /\ writer.last # None) =>
          /\ Len(ActiveRows(table)) = 1
          /\ ActiveRows(table)[1].phone_number = writer.last

\* C13: a process_message call without a phone number fails with ValueError
\* before anything is read or written: no node runs, and the checkpoints
\* and the ttl table are as they were.
C13_NoPhoneRejected ==
    [][\A c \in Callers :
          (pc[c] = "idle" /\ call'[c].phone = "") =>
              /\ pc'[c] = "failed"
              /\ call'[c].cause = "ValueError"
              /\ call'[c].steps = 0
              /\ call'[c].nverify = 0
              /\ call'[c].ncalls = 0
              /\ checkpoints' = checkpoints
              /\ ttl' = ttl]_vars

\* a call without a phone number was rejected on a thread that has a
\* conversation
C13_Witness ==
    \E c \in Callers :
        /\ pc[c] = "failed"
        /\ call[c].phone = ""
        /\ call[c].cause = "ValueError"
        /\ checkpoints[call[c].thread] # <<>>

\* a first turn on a new thread for a number only the local directory knows
DirectoryFirstTurn(c) ==
    /\ pc[c] # "idle"
    /\ call[c].pre = <<>>
    /\ call[c].phone \in DirectoryPhones \ LegacyPhones

\* the identity fields of a state are those of the directory record
HasDirectoryIdentity(st, p) ==
    /\ st.verified_customer = "True"
    /\ st.local_data = "True"
    /\ st.account_id = get_customer_by_phone(p).account_id
    /\ st.customer_name = get_customer_by_phone(p).name
    /\ st.registered_address = get_customer_by_phone(p).address

RowFailed(t) == t \notin sweep.failed /\ t \in sweep'.failed

\* C15: when clear_memory fails for a stale thread during a sweep, that
\* thread's checkpoint is left as it was and the loop goes on; the sweep ends
\* normally with every row examined and every other stale thread cleared,
\* and a sweep that has read its rows always reaches that end.
C15_SweepToleratesRowFailure ==
    /\ [][\A t \in Threads :
             RowFailed(t) =>
                 /\ checkpoints' = checkpoints
                 /\ sweep'.pc = "scan"
                 /\ sweep'.todo = sweep.todo \ {t}]_vars
    /\ [](sweep.pc = "raised" => sweep.failed = {})
    /\ [](sweep.pc = "done" =>
             /\ sweep.todo = {}
             /\ \A t \in Threads :
                    (StaleAtSweep(t) /\ t \notin sweep.failed)
                        => checkpoints[t] = <<>>)
    /\ (sweep.pc = "scan" ~> sweep.pc = "done")

\* a finished sweep in which one stale thread failed and kept its checkpoint
\* and another stale thread was cleared
C15_Witness ==
    /\ sweep.pc = "done"
    /\ \E t \in Threads, u \in Threads :
         /\ t # u
         /\ StaleAtSweep(t) /\ t \in sweep.failed /\ checkpoints[t] # <<>>
         /\ StaleAtSweep(u) /\ u \notin sweep.failed /\ checkpoints[u] = <<>>
         /\ sweep.cleared = 1

\* C16: a finished sweep returns the number of threads it cleared.
C16_SweepReturnsCount ==
    sweep.pc = "done" => sweep.result = <<sweep.cleared>>

\* C17: a clear_memory(t) call either removes the checkpoint of t or raises
\* and leaves it as it was; the checkpoints of the other threads do not
\* change in either case.
C17_ClearMemoryTransactional ==
    [][(clear.pc = "idle" /\ clear'.pc # "idle") =>
          LET t == clear'.thread
          IN /\ clear'.pc \in {"done", "raised"}
             /\ clear'.pc = "done" => checkpoints'[t] = <<>>
             /\ clear'.pc = "raised" => checkpoints'[t] = checkpoints[t]
             /\ \A u \in Threads \ {t} : checkpoints'[u] = checkpoints[u]]_vars

\* a clear_memory call has raised on a thread with a conversation while
\* another thread has one too
C17_Witness ==
    /\ clear.pc = "raised"
    /\ \A u \in Threads : checkpoints[u] # <<>>

\* C18: every tool invocation returns a string.
C18_ToolsNeverRaise ==
    toolcall.tool # None => toolcall.outcome = "text"

\* the thread was not verified when the call began
UnverifiedAtEntry(c) ==
    call[c].pre = <<>> \/ ~Truthy(call[c].pre[1].verified_customer)

\* C19: a turn that carries a phone number on a thread that is not yet
\* verified goes from the entry to the model call without running
\* verify_customer.
C19_PhonePresentSkipsVerify ==
    \A c \in Callers :
        (pc[c] # "idle" /\ call[c].phone \in Phones /\ UnverifiedAtEntry(c))
            => call[c].nverify = 0

\* C20: a failure of the legacy lookup (no account id, or no usage snapshot
\* for the account id) never fails the turn: verify_customer falls back to
\* the local directory and goes on to the chatbot node.
C20_LegacyFailureFallsBack ==
    \A c \in Callers :
        (pc[c] # "idle" /\ call[c].nverify >= 1) =>
            /\ call[c].cause # "TypeError"
            /\ call[c].st.verified_customer # None

\* the states the orchestrator holds: the latest checkpoint of every thread
\* and the state of every turn in flight
DialogueStates ==
    {checkpoints[t][1] : t \in {u \in Threads : checkpoints[u] # <<>>}}
        \cup {call[c].st : c \in {d \in Callers : pc[d] # "idle"}}

\* C21: in every state, verified_customer true implies that account_id and
\* customer_name are not null.
C21_VerifiedHasIdentity ==
    \A st \in DialogueStates :
        st.verified_customer = "True" =>
            st.account_id # None /\ st.customer_name # None

\* the fields only the legacy path writes
LegacyFields == {"balance", "days_left", "used", "read_date", "charge_amount"}

\* C22: in every state at most one identity path has populated the thread:
\* with local_data true the legacy snapshot fields are null, with local_data
\* false registered_address is null.
C22_OneIdentityPath ==
    \A st \in DialogueStates :
        /\ st.local_data = "True" => \A f \in LegacyFields : st[f] = None
        /\ st.local_data = "False" => st.registered_address = None
        /\ st.local_data = None =>
               /\ \A f \in LegacyFields : st[f] = None
               /\ st.registered_address = None

\* a later turn has replied on a thread the legacy path populated, with a
\* phone number the local directory would resolve
C22_Witness ==
    \E c \in Callers :
        /\ pc[c] = "replied"
        /\ call[c].turn >= 2
        /\ call[c].pre # <<>>
        /\ call[c].pre[1].local_data = "False"
        /\ call[c].phone = "pD"
        /\ call[c].st.balance # None

\* the fields verification resolves
IdentityFields ==
    {"account_id", "customer_name", "registered_address", "local_data"}
        \cup LegacyFields

\* the graph run of the call began on a thread whose checkpoint was verified
VerifiedAtEntry(c) ==
    /\ pc[c] # "idle"
    /\ call[c].turn >= 1
    /\ call[c].pre # <<>>
    /\ call[c].pre[1].verified_customer = "True"

C24_TurnTerminates ==
    /\ [](\A c \in Callers : call[c].steps <= RecursionLimit)
    /\ [][\A c \in Callers :
            (pc[c] = "loop" /\ call[c].node = "tools" /\ call'[c] # call[c]
             /\ pc'[c] = "loop") => call'[c].node = "chatbot"]_vars
    /\ \A c \in Callers :
         (pc[c] = "loop") ~> (pc[c] \in {"replied", "failed"})

\* a turn of a verified thread in which every model call asked for a tool
\* ended with GraphRecursionError
C24_Witness ==
    \E c \in Callers :
        /\ pc[c] = "failed"
        /\ call[c].cause = "GraphRecursionError"
        /\ call[c].nverify = 1
        /\ call[c].steps = RecursionLimit
        /\ 2 * call[c].ncalls >= RecursionLimit - 3

\* C25: /chat answers a validation failure with 400: an empty message, an
\* empty phone number, or a ValueError raised by process_message.
C25_ValidationIs400 ==
    request.pc = "done" =>
        ((request.message = "" \/ request.phone_number = ""
          \/ request.cause = "ValueError") => request.status_code = 400)

\* C26: the verify_phone_number tool is faithful to the database: when the
\* database verification of a 10-digit number succeeded the tool returns the
\* VERIFICATION SUCCESSFUL text, and when it returns VERIFICATION FAILED or
\* VERIFICATION ERROR the verification records are those of before the call.
C26_VerifyToolFaithful ==
    (/\ toolcall.tool = "verify_phone_number"
     /\ toolcall.outcome \in {"VERIFICATION SUCCESSFUL", "VERIFICATION FAILED",
                              "VERIFICATION ERROR"}
     /\ gate.pc = "returned" /\ gate.op = "verify")
    => /\ gate.result => toolcall.outcome = "VERIFICATION SUCCESSFUL"
       /\ toolcall.outcome # "VERIFICATION SUCCESSFUL" => table = gate.pre

\* the accounts whose data a tool can show
AccountIds == {get_customer_by_phone(p).account_id : p \in DirectoryPhones}

\* C27: get_meter_reading and analyze_usage_patterns show the data of the
\* customer of the thread the turn runs in, whatever other threads verified.
C27_ToolUsesOwnThread ==
    (/\ toolcall.tool \in {"get_meter_reading", "analyze_usage_patterns"}
     /\ toolcall.outcome \in AccountIds)
    => toolcall.outcome = get_customer_by_phone(toolcall.input[2]).account_id

\* C28: in every checkpoint with verified_customer true, account_id and
\* customer_name are those of the customer the checkpoint's phone_number
\* identifies.
C28_IdentityMatchesPhone ==
    \A t \in Threads :
        (checkpoints[t] # <<>> /\ checkpoints[t][1].verified_customer = "True")
        => LET st == checkpoints[t][1]
               account_id == "acct_" \o st.phone_number
           IN /\ st.account_id = account_id
              /\ st.customer_name \in
                    {get_customer_by_phone(st.phone_number).name}
                    \cup {d.name : d \in my_usage(account_id)}

\* C29: after clear-data for (phone_number, session_id) succeeded, the
\* verification record that the session's verify_phone_number call created
\* for that phone number is gone.
C29_ClearDataRemovesRecord ==
    (/\ gate.pc = "returned" /\ gate.op = "clear_data" /\ gate.result
     /\ gate.phone # ""
     /\ gate.prev.op = "verify" /\ gate.prev.result
     /\ gate.prev.phone = gate.phone
     /\ toolcall.tool = "verify_phone_number"
     /\ toolcall.input = <<gate.session, gate.phone>>)
    => ~ExistingVerification(table, gate.phone)

\* C30: every ttl record refers to a thread that has a checkpoint.
C30_TtlRecordHasCheckpoint ==
    \A r \in ttl : checkpoints[r[1]] # <<>>

====
